---- MODULE Spec2Model ----
(***************************************************************************)
(* Model of the concurrent URL checker (internal/checker): Checker.New,    *)
(* Checker.CheckURLs with its producer goroutine, worker pool, closer      *)
(* goroutine and collect loop, Checker.worker and Checker.checkURL.        *)
(* One action per step of each goroutine; channels are bounded FIFO        *)
(* buffers with a closed flag, the WaitGroup is a counter, the context is  *)
(* a flag that Cancel raises.                                              *)
(***************************************************************************)
EXTENDS Integers, Sequences, FiniteSets, TLC

\* ---------------------------------------------------------------- bounds
MaxUrls == 2
MaxW == 2

\* successive calls of CheckURLs on one Checker
MaxCalls == 2

\* concurrent invocations of handleCheckURLs
MaxHandlers == 2

\* if len(req.URLs) > 1000
MaxURLsPerRequest == 1000

Targets == {"http://a", "://invalid-url"}
StatusCodes == {199, 200, 399, 400}

\* every status code a response can carry (three digits, 1xx to 5xx)
AllStatusCodes == 100..599
ErrCauses == {"timeout", "connection refused"}

Workers == 1..MaxW

Handlers == 1..MaxHandlers

\* values New may be given for maxWorkers (any int; config.Load takes it
\* from MAX_WORKERS unchecked)
WorkerConfigs == (-1)..MaxW

VARIABLES
    maxWorkers,     \* Checker.maxWorkers
    urls,           \* argument of CheckURLs
    ctxDone,        \* ctx.Done() is closed
    mainpc,         \* position of the goroutine running CheckURLs
    workerCount,    \* local workerCount
    spawnI,         \* loop variable i of the spawn loop
    jobs,           \* buffer of the jobs channel
    jobsClosed,
    results,        \* buffer of the results channel
    resultsClosed,
    wg,             \* sync.WaitGroup counter
    prodpc,         \* producer goroutine: "none", "loop", "done"
    prodIdx,        \* index of the next url the producer sends
    closerpc,       \* closer goroutine: "none", "wait", "close", "done"
    wpc,            \* per worker: "none","recv","select","checkurl","do","inflight","send","done"
    wurl,           \* per worker: the url taken from jobs
    wres,           \* per worker: the CheckResult being built
    wgot,           \* per worker: what the last request attempt obtained
    checkResults,   \* the slice the collect loop appends to
    ret,            \* the slice CheckURLs returned
    served,         \* environment: the status codes the probed servers answer with
    calls,          \* how many calls of CheckURLs the caller has begun on this Checker
    api,            \* the state of the API layer (a record, its fields below)
    sent,           \* per worker: HTTP requests client.Do has issued for the current probe
    probed          \* history: per target, how often checkURL was called for it

vars == <<maxWorkers, urls, ctxDone, mainpc, workerCount, spawnI, jobs,
          jobsClosed, results, resultsClosed, wg, prodpc, prodIdx, closerpc,
          wpc, wurl, wres, wgot, checkResults, ret, served,
          sent, probed, calls, api>>

\* the fields of api; the first six are functions of the invocations of
\* handleCheckURLs begun so far
hpc == api.hpc                  \* the invocation's position
hreq == api.hreq                \* the request body
hchecker == api.hchecker        \* the Checker the handler created
hresults == api.hresults        \* local results
hcounted == api.hcounted        \* history: its increments of url_checks_total
hresp == api.hresp              \* the HTTP response written
RequestsInFlight == api.RequestsInFlight    \* metrics.RequestsInFlight
URLChecksTotal == api.URLChecksTotal        \* metrics.URLChecksTotal, per label
\* metrics.URLCheckDuration: observations per status_code label
URLCheckDuration == api.URLCheckDuration

\* ------------------------------------------------------------- data model
SeqsUpTo(S, n) == UNION {[1..k -> S] : k \in 0..n}

NoError == <<>>

\* models.CheckResult zero value carrying URL (CheckedAt is not modelled)
NewResult(url) ==
    [URL |-> url, Error |-> NoError, ResponseTimeMs |-> "zero",
     StatusCode |-> 0, Available |-> FALSE]

NoResult == NewResult("")

\* What one request attempt obtained: kind is "response" (resp, nil),
\* "error" (nil, err from client.Do) or "norequest" (err from NewRequestWithContext);
\* waited tells whether client.Do was in flight when it ended.
NoOutcome == [kind |-> "none", code |-> 0, cause |-> "", waited |-> FALSE]
Response(s) == [kind |-> "response", code |-> s, cause |-> "", waited |-> TRUE]
Failure(c) == [kind |-> "error", code |-> 0, cause |-> c, waited |-> TRUE]
FailedAtOnce(c) == [kind |-> "error", code |-> 0, cause |-> c, waited |-> FALSE]
NoRequest == [kind |-> "norequest", code |-> 0, cause |-> "parse error", waited |-> FALSE]

\* http.NewRequestWithContext succeeds iff the url parses
ParseOK(url) == url # "://invalid-url"

\* fmt.Sprintf("<prefix>: %v", err)
Sprintf(prefix, cause) == <<prefix, cause>>

Contains(e, tok) == \E i \in DOMAIN e : e[i] = tok

Min(a, b) == IF a < b THEN a ELSE b

\* -------------------------------------------------------- API layer data
\* the status codes the servers probed through the API answer with
HandlerServed == {200, 404}

Repeat(u, n) == [i \in 1..n |-> u]

\* the urls lists of the requests: empty, short, and at and above the limit
RequestLists ==
    {<<>>, <<"://invalid-url", "http://a">>,
     Repeat("http://a", MaxURLsPerRequest),
     Repeat("http://a", MaxURLsPerRequest + 1)}

\* models.CheckRequest as decoded; decodes = FALSE is a body json cannot decode
NoRequestBody == [decodes |-> FALSE, urls |-> <<>>, maxWorkers |-> 0]

RequestBodies ==
    {NoRequestBody}
        \cup {[decodes |-> TRUE, urls |-> us, maxWorkers |-> 0] : us \in RequestLists}
        \cup {[decodes |-> TRUE, urls |-> <<"://invalid-url", "http://a">>,
                maxWorkers |-> 1]}

NoChecker == [created |-> FALSE, maxWorkers |-> 0]

\* what the handler wrote: the status and, of models.CheckResponse, the
\* totals (Results is the handler's results; TotalTimeMs is not modelled);
\* status 0: nothing written yet
NoResponse == [status |-> 0, total_checked |-> 0, total_available |-> 0]

MetricLabels == {"success", "failure"}

\* fmt.Sprintf("%d", result.StatusCode)
DurationLabels == {0} \cup HandlerServed

\* no request has arrived: the per-invocation variables are empty functions
ApiInit ==
    api = [hpc |-> <<>>, hreq |-> <<>>, hchecker |-> <<>>, hresults |-> <<>>,
           hcounted |-> <<>>, hresp |-> <<>>,
           RequestsInFlight |-> 0,
           URLChecksTotal |-> [l \in MetricLabels |-> 0],
           URLCheckDuration |-> [l \in DurationLabels |-> 0]]

\* ----------------------------------------------------------------- Init
Init ==
    /\ maxWorkers \in WorkerConfigs
    /\ urls = <<>>
    /\ ctxDone = FALSE
    /\ mainpc = "idle"
    /\ workerCount = 0
    /\ spawnI = 0
    /\ jobs = <<>>
    /\ jobsClosed = FALSE
    /\ results = <<>>
    /\ resultsClosed = FALSE
    /\ wg = 0
    /\ prodpc = "none"
    /\ prodIdx = 1
    /\ closerpc = "none"
    /\ wpc = [w \in Workers |-> "none"]
    /\ wurl = [w \in Workers |-> ""]
    /\ wres = [w \in Workers |-> NoResult]
    /\ wgot = [w \in Workers |-> NoOutcome]
    /\ checkResults = <<>>
    /\ ret = <<>>
    /\ served = StatusCodes
    /\ sent = [w \in Workers |-> 0]
    /\ calls = 1
    /\ ApiInit
    /\ probed = [u \in Targets |-> 0]

\* ------------------------------------------------------------ CheckURLs
\* mutant: the pool is sized by the batch alone, maxWorkers is ignored
WorkerCountIgnoringMax(mw, n) == n

\* workerCount := c.maxWorkers; if len(urls) < workerCount { workerCount = len(urls) }
EffectiveWorkerCount(mw, n) == IF n < mw THEN n ELSE mw

\* mutant: the channels are buffered for the pool, not for the batch
ChanCapOfPool == workerCount

\* make(chan ..., len(urls))
ChanCap == Len(urls)

\* mutant: jobs and results are fields of the Checker, made once in New
CallSharedQueues(us) ==
    /\ mainpc = "idle"
    /\ urls' = us
    /\ workerCount' = EffectiveWorkerCount(maxWorkers, Len(us))
    /\ IF workerCount' = 0
          THEN /\ mainpc' = "returned"
               /\ ret' = <<>>
          ELSE /\ mainpc' = "spawn"
               /\ ret' = ret
    /\ spawnI' = 0
    /\ wg' = 0
    /\ checkResults' = <<>>
    /\ UNCHANGED <<calls, api, maxWorkers, sent, served, probed, ctxDone, jobs,
                   jobsClosed, results, resultsClosed, prodpc, prodIdx,
                   closerpc, wpc, wurl, wres, wgot>>

\* Entry of CheckURLs up to the spawn loop: jobs and results are made, open
\* and empty, wg and checkResults are the call's own zero-valued locals;
\* returns at once when workerCount == 0.
Call(us) ==
    /\ mainpc = "idle"
    /\ urls' = us
    /\ jobs' = <<>>
    /\ jobsClosed' = FALSE
    /\ results' = <<>>
    /\ resultsClosed' = FALSE
    /\ workerCount' = EffectiveWorkerCount(maxWorkers, Len(us))
    /\ IF workerCount' = 0
          THEN /\ mainpc' = "returned"
               /\ ret' = <<>>
          ELSE /\ mainpc' = "spawn"
               /\ ret' = ret
    /\ spawnI' = 0
    /\ wg' = 0
    /\ checkResults' = <<>>
    /\ UNCHANGED <<calls, api, maxWorkers, sent, served, probed, ctxDone, prodpc,
                   prodIdx, closerpc, wpc, wurl, wres, wgot>>

\* for i := 0; i < workerCount; i++ { wg.Add(1); go c.worker(...) }
SpawnWorker ==
    /\ mainpc = "spawn"
    /\ spawnI < workerCount
    /\ wg' = wg + 1
    /\ wpc' = [wpc EXCEPT ![spawnI + 1] = "recv"]
    /\ spawnI' = spawnI + 1
    /\ UNCHANGED <<calls, api, maxWorkers, sent, served, probed, urls, ctxDone, mainpc, workerCount, jobs,
                   jobsClosed, results, resultsClosed, prodpc, prodIdx,
                   closerpc, wurl, wres, wgot, checkResults, ret>>

\* go func() { defer close(jobs); for _, url := range urls { ... } }()
GoProducer ==
    /\ mainpc = "spawn"
    /\ ~(spawnI < workerCount)
    /\ prodpc' = "loop"
    /\ prodIdx' = 1
    /\ mainpc' = "gocloser"
    /\ UNCHANGED <<calls, api, maxWorkers, sent, served, probed, urls, ctxDone, workerCount, spawnI, jobs,
                   jobsClosed, results, resultsClosed, wg, closerpc, wpc,
                   wurl, wres, wgot, checkResults, ret>>

\* go func() { wg.Wait(); close(results) }()
GoCloser ==
    /\ mainpc = "gocloser"
    /\ closerpc' = "wait"
    /\ mainpc' = "collect"
    /\ UNCHANGED <<calls, api, maxWorkers, sent, served, probed, urls, ctxDone, workerCount, spawnI, jobs,
                   jobsClosed, results, resultsClosed, wg, prodpc, prodIdx,
                   wpc, wurl, wres, wgot, checkResults, ret>>

\* mutant: checkResults = []CheckResult{result} instead of append
CollectRecvOverwrite ==
    /\ mainpc = "collect"
    /\ Len(results) > 0
    /\ checkResults' = <<Head(results)>>
    /\ results' = Tail(results)
    /\ UNCHANGED <<calls, api, maxWorkers, sent, served, probed, urls, ctxDone, mainpc, workerCount, spawnI,
                   jobs, jobsClosed, resultsClosed, wg, prodpc, prodIdx,
                   closerpc, wpc, wurl, wres, wgot, ret>>

\* for result := range results { checkResults = append(checkResults, result) }
CollectRecv ==
    /\ mainpc = "collect"
    /\ Len(results) > 0
    /\ checkResults' = Append(checkResults, Head(results))
    /\ results' = Tail(results)
    /\ UNCHANGED <<calls, api, maxWorkers, sent, served, probed, urls, ctxDone, mainpc, workerCount, spawnI,
                   jobs, jobsClosed, resultsClosed, wg, prodpc, prodIdx,
                   closerpc, wpc, wurl, wres, wgot, ret>>

\* mutant: the collector returns as soon as results is empty, closed or not
CollectReturnEarly ==
    /\ mainpc = "collect"
    /\ Len(results) = 0
    /\ ret' = checkResults
    /\ mainpc' = "returned"
    /\ UNCHANGED <<calls, api, maxWorkers, sent, served, probed, urls, ctxDone, workerCount, spawnI, jobs,
                   jobsClosed, results, resultsClosed, wg, prodpc, prodIdx,
                   closerpc, wpc, wurl, wres, wgot, checkResults>>

\* the range loop ends when results is closed and drained; return checkResults
CollectReturn ==
    /\ mainpc = "collect"
    /\ Len(results) = 0
    /\ resultsClosed
    /\ ret' = checkResults
    /\ mainpc' = "returned"
    /\ UNCHANGED <<calls, api, maxWorkers, sent, served, probed, urls, ctxDone, workerCount, spawnI, jobs,
                   jobsClosed, results, resultsClosed, wg, prodpc, prodIdx,
                   closerpc, wpc, wurl, wres, wgot, checkResults>>

\* ------------------------------------------------------------- producer
\* select { case jobs <- url: ... }
ProducerSend ==
    /\ prodpc = "loop"
    /\ prodIdx <= Len(urls)
    /\ Len(jobs) < ChanCap
    /\ jobs' = Append(jobs, urls[prodIdx])
    /\ prodIdx' = prodIdx + 1
    /\ UNCHANGED <<calls, api, maxWorkers, sent, served, probed, urls, ctxDone, mainpc, workerCount, spawnI,
                   jobsClosed, results, resultsClosed, wg, prodpc, closerpc,
                   wpc, wurl, wres, wgot, checkResults, ret>>

\* mutant: the producer returns on cancellation without closing jobs
ProducerCancelledNoClose ==
    /\ prodpc = "loop"
    /\ prodIdx <= Len(urls)
    /\ ctxDone
    /\ prodpc' = "done"
    /\ UNCHANGED <<calls, api, maxWorkers, sent, served, probed, urls, ctxDone, mainpc, workerCount, spawnI,
                   jobs, jobsClosed, results, resultsClosed, wg, prodIdx,
                   closerpc, wpc, wurl, wres, wgot, checkResults, ret>>

\* select { ... case <-ctx.Done(): return }, then the deferred close(jobs)
ProducerCancelled ==
    /\ prodpc = "loop"
    /\ prodIdx <= Len(urls)
    /\ ctxDone
    /\ jobsClosed' = TRUE
    /\ prodpc' = "done"
    /\ UNCHANGED <<calls, api, maxWorkers, sent, served, probed, urls, ctxDone, mainpc, workerCount, spawnI,
                   jobs, results, resultsClosed, wg, prodIdx, closerpc, wpc,
                   wurl, wres, wgot, checkResults, ret>>

\* mutant: the producer closes jobs and returns before its last send
ProducerFinishEarly ==
    /\ prodpc = "loop"
    /\ prodIdx >= Len(urls)
    /\ jobsClosed' = TRUE
    /\ prodpc' = "done"
    /\ UNCHANGED <<calls, api, maxWorkers, sent, served, probed, urls, ctxDone, mainpc,
                   workerCount, spawnI, jobs, results, resultsClosed, wg, prodIdx,
                   closerpc, wpc, wurl, wres, wgot, checkResults, ret>>

\* the range over urls is exhausted; the deferred close(jobs) runs
ProducerFinish ==
    /\ prodpc = "loop"
    /\ prodIdx > Len(urls)
    /\ jobsClosed' = TRUE
    /\ prodpc' = "done"
    /\ UNCHANGED <<calls, api, maxWorkers, sent, served, probed, urls, ctxDone, mainpc, workerCount, spawnI,
                   jobs, results, resultsClosed, wg, prodIdx, closerpc, wpc,
                   wurl, wres, wgot, checkResults, ret>>

\* --------------------------------------------------------------- closer
\* mutant: the closer closes results without wg.Wait()
WgWaitNoWait ==
    /\ closerpc = "wait"
    /\ closerpc' = "close"
    /\ UNCHANGED <<calls, api, maxWorkers, sent, served, probed, urls, ctxDone, mainpc, workerCount, spawnI,
                   jobs, jobsClosed, results, resultsClosed, wg, prodpc,
                   prodIdx, wpc, wurl, wres, wgot, checkResults, ret>>

\* wg.Wait() returns
WgWait ==
    /\ closerpc = "wait"
    /\ wg = 0
    /\ closerpc' = "close"
    /\ UNCHANGED <<calls, api, maxWorkers, sent, served, probed, urls, ctxDone, mainpc, workerCount, spawnI,
                   jobs, jobsClosed, results, resultsClosed, wg, prodpc,
                   prodIdx, wpc, wurl, wres, wgot, checkResults, ret>>

CloseResults ==
    /\ closerpc = "close"
    /\ resultsClosed' = TRUE
    /\ closerpc' = "done"
    /\ UNCHANGED <<calls, api, maxWorkers, sent, served, probed, urls, ctxDone, mainpc, workerCount, spawnI,
                   jobs, jobsClosed, results, wg, prodpc, prodIdx, wpc, wurl,
                   wres, wgot, checkResults, ret>>

\* --------------------------------------------------------------- worker
\* mutant: the worker reads the head of jobs without removing it
WorkerRecvPeek(w) ==
    /\ wpc[w] = "recv"
    /\ Len(jobs) > 0
    /\ wurl' = [wurl EXCEPT ![w] = Head(jobs)]
    /\ wpc' = [wpc EXCEPT ![w] = "select"]
    /\ UNCHANGED <<calls, api, maxWorkers, sent, served, probed, urls, ctxDone, mainpc, workerCount, spawnI,
                   jobs, jobsClosed, results, resultsClosed, wg, prodpc, prodIdx,
                   closerpc, wres, wgot, checkResults, ret>>

\* for url := range jobs: receive the next url
WorkerRecv(w) ==
    /\ wpc[w] = "recv"
    /\ Len(jobs) > 0
    /\ wurl' = [wurl EXCEPT ![w] = Head(jobs)]
    /\ jobs' = Tail(jobs)
    /\ wpc' = [wpc EXCEPT ![w] = "select"]
    /\ UNCHANGED <<calls, api, maxWorkers, sent, served, probed, urls, ctxDone, mainpc, workerCount, spawnI,
                   jobsClosed, results, resultsClosed, wg, prodpc, prodIdx,
                   closerpc, wres, wgot, checkResults, ret>>

\* mutant: the worker leaves as soon as jobs is empty, closed or not
WorkerExhaustedOnEmpty(w) ==
    /\ wpc[w] = "recv"
    /\ Len(jobs) = 0
    /\ wpc' = [wpc EXCEPT ![w] = "done"]
    /\ wg' = wg - 1
    /\ UNCHANGED <<calls, api, maxWorkers, sent, served, probed, urls, ctxDone, mainpc, workerCount, spawnI,
                   jobs, jobsClosed, results, resultsClosed, prodpc, prodIdx,
                   closerpc, wurl, wres, wgot, checkResults, ret>>

\* for url := range jobs: jobs closed and drained, the loop ends; defer wg.Done()
WorkerExhausted(w) ==
    /\ wpc[w] = "recv"
    /\ Len(jobs) = 0
    /\ jobsClosed
    /\ wpc' = [wpc EXCEPT ![w] = "done"]
    /\ wg' = wg - 1
    /\ UNCHANGED <<calls, api, maxWorkers, sent, served, probed, urls, ctxDone, mainpc, workerCount, spawnI,
                   jobs, jobsClosed, results, resultsClosed, prodpc, prodIdx,
                   closerpc, wurl, wres, wgot, checkResults, ret>>

\* mutant: the worker never looks at ctx.Done()
WorkerNeverSeesDone == FALSE

\* select { case <-ctx.Done(): ... default: ... }: is the Done case ready
WorkerSeesDone == ctxDone

\* case <-ctx.Done(): return; defer wg.Done()
WorkerCancelled(w) ==
    /\ wpc[w] = "select"
    /\ WorkerSeesDone
    /\ wpc' = [wpc EXCEPT ![w] = "done"]
    /\ wg' = wg - 1
    /\ UNCHANGED <<calls, api, maxWorkers, sent, served, probed, urls, ctxDone, mainpc, workerCount, spawnI,
                   jobs, jobsClosed, results, resultsClosed, prodpc, prodIdx,
                   closerpc, wurl, wres, wgot, checkResults, ret>>

\* mutant: checkURL is called under a lock shared by the workers
WorkerDefaultSerial(w) ==
    /\ wpc[w] = "select"
    /\ ~WorkerSeesDone
    /\ \A v \in Workers : wpc[v] \notin {"checkurl", "do", "inflight"}
    /\ wpc' = [wpc EXCEPT ![w] = "checkurl"]
    /\ probed' = [probed EXCEPT ![wurl[w]] = @ + 1]
    /\ UNCHANGED <<calls, api, maxWorkers, sent, served, urls, ctxDone, mainpc, workerCount, spawnI,
                   jobs, jobsClosed, results, resultsClosed, wg, prodpc,
                   prodIdx, closerpc, wurl, wres, wgot, checkResults, ret>>

\* default: the worker calls c.checkURL(ctx, url)
WorkerDefault(w) ==
    /\ wpc[w] = "select"
    /\ ~WorkerSeesDone
    /\ wpc' = [wpc EXCEPT ![w] = "checkurl"]
    /\ probed' = [probed EXCEPT ![wurl[w]] = @ + 1]
    /\ UNCHANGED <<calls, api, maxWorkers, sent, served, urls, ctxDone, mainpc, workerCount, spawnI,
                   jobs, jobsClosed, results, resultsClosed, wg, prodpc,
                   prodIdx, closerpc, wurl, wres, wgot, checkResults, ret>>

\* mutant: a worker gives up after sending a failed result
WorkerSendStopOnError(w) ==
    /\ wpc[w] = "send"
    /\ Len(results) < ChanCap
    /\ results' = Append(results, wres[w])
    /\ IF wres[w].Error # NoError
          THEN /\ wpc' = [wpc EXCEPT ![w] = "done"]
               /\ wg' = wg - 1
          ELSE /\ wpc' = [wpc EXCEPT ![w] = "recv"]
               /\ wg' = wg
    /\ wres' = [wres EXCEPT ![w] = NoResult]
    /\ wgot' = [wgot EXCEPT ![w] = NoOutcome]
    /\ sent' = [sent EXCEPT ![w] = 0]
    /\ wurl' = [wurl EXCEPT ![w] = ""]
    /\ UNCHANGED <<calls, api, maxWorkers, served, probed, urls, ctxDone, mainpc, workerCount, spawnI,
                   jobs, jobsClosed, resultsClosed, prodpc, prodIdx,
                   closerpc, checkResults, ret>>

\* mutant: select { case results <- r: case <-ctx.Done(): return }
WorkerSendUnlessCancelled(w) ==
    /\ wpc[w] = "send"
    /\ Len(results) < ChanCap
    /\ IF ctxDone
          THEN /\ results' = results
               /\ wpc' = [wpc EXCEPT ![w] = "done"]
               /\ wg' = wg - 1
          ELSE /\ results' = Append(results, wres[w])
               /\ wpc' = [wpc EXCEPT ![w] = "recv"]
               /\ wg' = wg
    /\ wres' = [wres EXCEPT ![w] = NoResult]
    /\ wgot' = [wgot EXCEPT ![w] = NoOutcome]
    /\ sent' = [sent EXCEPT ![w] = 0]
    /\ wurl' = [wurl EXCEPT ![w] = ""]
    /\ UNCHANGED <<calls, api, maxWorkers, served, probed, urls, ctxDone, mainpc, workerCount, spawnI,
                   jobs, jobsClosed, resultsClosed, prodpc, prodIdx,
                   closerpc, checkResults, ret>>

\* results <- (the value checkURL returned)
WorkerSend(w) ==
    /\ wpc[w] = "send"
    /\ Len(results) < ChanCap
    /\ results' = Append(results, wres[w])
    /\ wpc' = [wpc EXCEPT ![w] = "recv"]
    /\ wres' = [wres EXCEPT ![w] = NoResult]
    /\ wgot' = [wgot EXCEPT ![w] = NoOutcome]
    /\ sent' = [sent EXCEPT ![w] = 0]
    /\ wurl' = [wurl EXCEPT ![w] = ""]
    /\ UNCHANGED <<calls, api, maxWorkers, served, probed, urls, ctxDone, mainpc, workerCount, spawnI,
                   jobs, jobsClosed, resultsClosed, wg, prodpc, prodIdx,
                   closerpc, checkResults, ret>>

\* ------------------------------------------------------------- checkURL
\* mutant: the upper bound is inclusive
IsAvailableInclusive(s) == s >= 200 /\ s <= 400

\* result.Available = resp.StatusCode >= 200 && resp.StatusCode < 400
IsAvailable(s) == s >= 200 /\ s < 400

\* if err != nil { result.Error = fmt.Sprintf("failed to create request: %v", err); return result }
RequestNotCreated(r) ==
    [r EXCEPT !.Error = Sprintf("failed to create request", "parse error")]

\* mutant: the error of client.Do is dropped
RequestFailedNoError(r, cause) ==
    [r EXCEPT !.ResponseTimeMs = "elapsed"]

\* duration measured, then if err != nil { result.Error = "request failed: ..."; return result }
RequestFailed(r, cause) ==
    [r EXCEPT !.ResponseTimeMs = "elapsed",
              !.Error = Sprintf("request failed", cause)]

\* mutant: a status outside [200, 400) is also recorded as an error
ResponseReceivedWithError(r, s) ==
    [r EXCEPT !.ResponseTimeMs = "elapsed",
              !.StatusCode = s,
              !.Available = IsAvailable(s),
              !.Error = IF IsAvailable(s) THEN NoError
                        ELSE Sprintf("unexpected status", "status")]

\* duration measured, then StatusCode and Available set from the response
ResponseReceived(r, s) ==
    [r EXCEPT !.ResponseTimeMs = "elapsed",
              !.StatusCode = s,
              !.Available = IsAvailable(s)]

\* result := CheckResult{URL: url}; req, err := http.NewRequestWithContext(ctx, GET, url, nil)
CheckURLStart(w) ==
    /\ wpc[w] = "checkurl"
    /\ IF ParseOK(wurl[w])
          THEN /\ wres' = [wres EXCEPT ![w] = NewResult(wurl[w])]
               /\ wgot' = wgot
               /\ wpc' = [wpc EXCEPT ![w] = "do"]
          ELSE /\ wres' = [wres EXCEPT ![w] = RequestNotCreated(NewResult(wurl[w]))]
               /\ wgot' = [wgot EXCEPT ![w] = NoRequest]
               /\ wpc' = [wpc EXCEPT ![w] = "send"]
    /\ UNCHANGED <<calls, api, maxWorkers, sent, served, probed, urls, ctxDone, mainpc, workerCount, spawnI,
                   jobs, jobsClosed, results, resultsClosed, wg, prodpc,
                   prodIdx, closerpc, wurl, checkResults, ret>>

\* c.client.Do(req) begins; a request whose context is already done fails at once
DoStart(w) ==
    /\ wpc[w] = "do"
    /\ IF ctxDone
          THEN /\ wgot' = [wgot EXCEPT ![w] = FailedAtOnce("context canceled")]
               /\ wres' = [wres EXCEPT ![w] = RequestFailed(wres[w], "context canceled")]
               /\ wpc' = [wpc EXCEPT ![w] = "send"]
               /\ sent' = sent
          ELSE /\ wgot' = wgot
               /\ wres' = wres
               /\ wpc' = [wpc EXCEPT ![w] = "inflight"]
               /\ sent' = [sent EXCEPT ![w] = 1]
    /\ UNCHANGED <<calls, api, maxWorkers, served, probed, urls, ctxDone, mainpc, workerCount, spawnI,
                   jobs, jobsClosed, results, resultsClosed, wg, prodpc,
                   prodIdx, closerpc, wurl, checkResults, ret>>

\* mutant: a request can fail with the context's error at any time
DoOutcomesAnyTime(done) ==
    {Response(s) : s \in served}
        \cup {Failure(c) : c \in ErrCauses}
        \cup {Failure("context canceled")}

\* what c.client.Do can return for a request in flight: a response, a
\* client.Timeout expiry, a transport failure, or (the request carries ctx)
\* the context's cancellation
DoOutcomes(done) ==
    {Response(s) : s \in served}
        \cup {Failure(c) : c \in ErrCauses}
        \cup (IF done THEN {Failure("context canceled")} ELSE {})

\* the status codes on which net/http's client consults CheckRedirect
RedirectCodes == {301, 302, 303, 307, 308}

\* mutant: the client keeps net/http's default policy (follow, up to 10 hops)
CheckRedirectDefault(via) ==
    IF via >= 10 THEN "stopped after 10 redirects" ELSE "follow"

\* CheckRedirect: func(req, via) error { return http.ErrUseLastResponse }
CheckRedirect(via) == "ErrUseLastResponse"

\* the client goes on to request the redirect's target
Follow == [kind |-> "follow", code |-> 0, cause |-> "", waited |-> TRUE]

\* what the client does with one answer o to the request it has on the wire,
\* via being the number of requests already issued: Follow (issue the next
\* request), or the value Do returns
AfterAnswer(o, via) ==
    IF o.kind = "response" /\ o.code \in RedirectCodes
       THEN CASE CheckRedirect(via) = "follow" -> Follow
              [] CheckRedirect(via) = "ErrUseLastResponse" -> o
              [] OTHER -> Failure(CheckRedirect(via))
       ELSE o

\* resp, err := c.client.Do(req) returns; lines 314-331
DoComplete(w) ==
    /\ wpc[w] = "inflight"
    /\ \E o \in DoOutcomes(ctxDone) :
          LET got == AfterAnswer(o, sent[w]) IN
          IF got.kind = "follow"
             THEN /\ sent' = [sent EXCEPT ![w] = @ + 1]
                  /\ UNCHANGED <<wgot, wres, wpc>>
             ELSE /\ wgot' = [wgot EXCEPT ![w] = got]
                  /\ wres' = [wres EXCEPT ![w] =
                                IF got.kind = "response"
                                   THEN ResponseReceived(wres[w], got.code)
                                   ELSE RequestFailed(wres[w], got.cause)]
                  /\ wpc' = [wpc EXCEPT ![w] = "send"]
                  /\ sent' = sent
    /\ UNCHANGED <<calls, api, maxWorkers, served, probed, urls, ctxDone, mainpc, workerCount, spawnI,
                   jobs, jobsClosed, results, resultsClosed, wg, prodpc,
                   prodIdx, closerpc, wurl, checkResults, ret>>

\* -------------------------------------------------------------- context
\* the caller cancels ctx, or its deadline fires, while CheckURLs runs
Cancel ==
    /\ mainpc \notin {"idle", "returned"}
    /\ ~ctxDone
    /\ ctxDone' = TRUE
    /\ UNCHANGED <<calls, api, maxWorkers, sent, served, probed, urls, mainpc, workerCount, spawnI, jobs,
                   jobsClosed, results, resultsClosed, wg, prodpc, prodIdx,
                   closerpc, wpc, wurl, wres, wgot, checkResults, ret>>

\* ----------------------------------------------------------------- Next
MainStep ==
    \/ /\ mainpc = "idle"
       /\ \E us \in SeqsUpTo(Targets, MaxUrls) : Call(us)
    \/ SpawnWorker
    \/ GoProducer
    \/ GoCloser
    \/ CollectRecv
    \/ CollectReturn

ProducerStep == ProducerSend \/ ProducerCancelled \/ ProducerFinish

CloserStep == WgWait \/ CloseResults

WorkerStep(w) ==
    \/ WorkerRecv(w)
    \/ WorkerExhausted(w)
    \/ WorkerCancelled(w)
    \/ WorkerDefault(w)
    \/ CheckURLStart(w)
    \/ DoStart(w)
    \/ DoComplete(w)
    \/ WorkerSend(w)

Next ==
    \/ MainStep
    \/ ProducerStep
    \/ CloserStep
    \/ \E w \in Workers : WorkerStep(w)
    \/ Cancel

Spec == Init /\ [][Next]_vars

\* ------------------------------------------------------ successive calls
\* CheckURLs has returned and the goroutines it started have ended; the
\* caller drops the returned slice and is about to call CheckURLs again on
\* the same Checker with a context of its own.  What the ended call left in
\* its channels, WaitGroup and slice stays as it is: the next Call makes its own.
NextBatch ==
    /\ mainpc = "returned"
    /\ prodpc \in {"none", "done"}
    /\ calls < MaxCalls
    /\ calls' = calls + 1
    /\ mainpc' = "idle"
    /\ ctxDone' = FALSE
    /\ urls' = <<>>
    /\ workerCount' = 0
    /\ spawnI' = 0
    /\ prodpc' = "none"
    /\ prodIdx' = 1
    /\ closerpc' = "none"
    /\ wpc' = [w \in Workers |-> "none"]
    /\ wurl' = [w \in Workers |-> ""]
    /\ ret' = <<>>
    /\ probed' = [u \in Targets |-> 0]
    /\ UNCHANGED <<api, maxWorkers, served, sent, jobs, jobsClosed, results,
                   resultsClosed, wg, wres, wgot, checkResults>>

SeqNext == Next \/ NextBatch

SeqSpec == Init /\ [][SeqNext]_vars

\* ------------------------------------------------------- handleCheckURLs
\* everything but the state of the API layer
coreVars == <<maxWorkers, urls, ctxDone, mainpc, workerCount, spawnI, jobs,
              jobsClosed, results, resultsClosed, wg, prodpc, prodIdx,
              closerpc, wpc, wurl, wres, wgot, checkResults, ret, served,
              sent, probed, calls>>

\* the CheckResults checkURL can return for url
ProbeResults(url) ==
    IF ParseOK(url)
       THEN {ResponseReceived(NewResult(url), s) : s \in served}
              \cup {RequestFailed(NewResult(url), c) :
                       c \in ErrCauses \cup {"context canceled"}}
       ELSE {RequestNotCreated(NewResult(url))}

\* rs can be what New(timeout, mw).CheckURLs(ctx, us) returns: nothing when
\* no worker is spawned, else at most one result of checkURL per occurrence
\* of a url in us, in any order
IsCheckURLsReturn(rs, mw, us) ==
    /\ EffectiveWorkerCount(mw, Len(us)) < 1 => rs = <<>>
    /\ \A u \in Targets :
          Cardinality({i \in DOMAIN rs : rs[i].URL = u})
              <= Cardinality({i \in DOMAIN us : us[i] = u})
    /\ \A i \in DOMAIN rs : rs[i] \in ProbeResults(rs[i].URL)

\* the values of urlChecker.CheckURLs(ctx, req.URLs) the handler is run
\* against: every possible return for a short list; for a long list the
\* empty return and the full-length returns that repeat one result
CheckURLsReturns(mw, us) ==
    LET pool == UNION {ProbeResults(us[i]) : i \in DOMAIN us}
        cands == IF Len(us) <= MaxUrls
                    THEN SeqsUpTo(pool, Len(us))
                    ELSE {<<>>} \cup
                         {[i \in 1..Len(us) |-> r] : r \in pool}
    IN {rs \in cands : IsCheckURLsReturn(rs, mw, us)}

\* mutant: a list of exactly the limit is refused too
TooManyInclusive(n) == n >= MaxURLsPerRequest

\* if len(req.URLs) > 1000
TooMany(n) == n > MaxURLsPerRequest

\* the three conditions under which the handler answers 400
Rejected(req) == ~req.decodes \/ Len(req.urls) = 0 \/ TooMany(Len(req.urls))

\* maxWorkers := s.config.MaxWorkers; if req.MaxWorkers > 0 { maxWorkers = req.MaxWorkers }
EffectiveMaxWorkers(cfg, requested) == IF requested > 0 THEN requested ELSE cfg

\* mutant: the label follows Available
MetricStatusByAvailable(r) == IF r.Available THEN "success" ELSE "failure"

\* status := "success"; if result.Error != "" { status = "failure" }
MetricStatus(r) == IF r.Error # NoError THEN "failure" ELSE "success"

\* mutant: every result without an error is counted as available
AvailableCountNoError(rs) == Cardinality({i \in DOMAIN rs : rs[i].Error = NoError})

\* availableCount := 0; for ... { if result.Available { availableCount++ } }
AvailableCount(rs) == Cardinality({i \in DOMAIN rs : rs[i].Available})

\* metrics.RequestsInFlight.Inc(); defer metrics.RequestsInFlight.Dec(); the body is read
HandlerEnter(h, req) ==
    /\ h \notin DOMAIN hpc
    /\ api' = [api EXCEPT
                 !.RequestsInFlight = @ + 1,
                 !.hreq = @ @@ (h :> req),
                 !.hpc = @ @@ (h :> "entered"),
                 !.hchecker = @ @@ (h :> NoChecker),
                 !.hresults = @ @@ (h :> <<>>),
                 !.hcounted = @ @@ (h :> [l \in MetricLabels |-> 0]),
                 !.hresp = @ @@ (h :> NoResponse)]
    /\ UNCHANGED coreVars

\* mutant: the 400 paths return without the deferred Dec
HandlerRejectNoDec(h) ==
    /\ h \in DOMAIN hpc
    /\ hpc[h] = "entered"
    /\ Rejected(hreq[h])
    /\ api' = [api EXCEPT
                 !.hresp[h] = [NoResponse EXCEPT !.status = 400],
                 !.hpc[h] = "done"]
    /\ UNCHANGED coreVars

\* http.Error(w, ..., http.StatusBadRequest); return; the deferred Dec runs
HandlerReject(h) ==
    /\ h \in DOMAIN hpc
    /\ hpc[h] = "entered"
    /\ Rejected(hreq[h])
    /\ api' = [api EXCEPT
                 !.hresp[h] = [NoResponse EXCEPT !.status = 400],
                 !.RequestsInFlight = @ - 1,
                 !.hpc[h] = "done"]
    /\ UNCHANGED coreVars

\* urlChecker := checker.New(timeout, maxWorkers); ctx made; CheckURLs is called
HandlerAccept(h) ==
    /\ h \in DOMAIN hpc
    /\ hpc[h] = "entered"
    /\ ~Rejected(hreq[h])
    /\ api' = [api EXCEPT
                 !.hchecker[h] =
                     [created |-> TRUE,
                      maxWorkers |-> EffectiveMaxWorkers(maxWorkers, hreq[h].maxWorkers)],
                 !.hpc[h] = "checking"]
    /\ UNCHANGED coreVars

\* results := urlChecker.CheckURLs(ctx, req.URLs) returns
HandlerChecked(h) ==
    /\ h \in DOMAIN hpc
    /\ hpc[h] = "checking"
    /\ \E rs \in CheckURLsReturns(hchecker[h].maxWorkers, hreq[h].urls) :
          api' = [api EXCEPT !.hresults[h] = rs, !.hpc[h] = "record"]
    /\ UNCHANGED coreVars

\* for _, result := range results { URLChecksTotal...Inc(); URLCheckDuration...Observe() }
HandlerRecord(h) ==
    /\ h \in DOMAIN hpc
    /\ hpc[h] = "record"
    /\ LET rs == hresults[h]
           n(l) == Cardinality({i \in DOMAIN rs : MetricStatus(rs[i]) = l})
       IN api' = [api EXCEPT
                    !.URLChecksTotal = [l \in MetricLabels |-> @[l] + n(l)],
                    !.hcounted[h] = [l \in MetricLabels |-> @[l] + n(l)],
                    !.URLCheckDuration =
                        [l \in DurationLabels |->
                            @[l] + Cardinality({i \in DOMAIN rs : rs[i].StatusCode = l})],
                    !.hpc[h] = "respond"]
    /\ UNCHANGED coreVars

\* availableCount computed, the CheckResponse encoded; the deferred Dec runs
HandlerRespond(h) ==
    /\ h \in DOMAIN hpc
    /\ hpc[h] = "respond"
    /\ api' = [api EXCEPT
                 !.hresp[h] = [status |-> 200,
                               total_checked |-> Len(hresults[h]),
                               total_available |-> AvailableCount(hresults[h])],
                 !.RequestsInFlight = @ - 1,
                 !.hpc[h] = "done"]
    /\ UNCHANGED coreVars

HandlerStep(h) ==
    \/ \E req \in RequestBodies : HandlerEnter(h, req)
    \/ HandlerReject(h)
    \/ HandlerAccept(h)
    \/ HandlerChecked(h)
    \/ HandlerRecord(h)
    \/ HandlerRespond(h)

\* NewServer: s.checker = checker.New(cfg.DefaultTimeout, cfg.MaxWorkers); no
\* request has arrived yet
HandlerInit ==
    /\ maxWorkers \in WorkerConfigs
    /\ urls = <<>>
    /\ ctxDone = FALSE
    /\ mainpc = "idle"
    /\ workerCount = 0
    /\ spawnI = 0
    /\ jobs = <<>>
    /\ jobsClosed = FALSE
    /\ results = <<>>
    /\ resultsClosed = FALSE
    /\ wg = 0
    /\ prodpc = "none"
    /\ prodIdx = 1
    /\ closerpc = "none"
    /\ wpc = [w \in Workers |-> "none"]
    /\ wurl = [w \in Workers |-> ""]
    /\ wres = [w \in Workers |-> NoResult]
    /\ wgot = [w \in Workers |-> NoOutcome]
    /\ checkResults = <<>>
    /\ ret = <<>>
    /\ served = HandlerServed
    /\ sent = [w \in Workers |-> 0]
    /\ probed = [u \in Targets |-> 0]
    /\ calls = 1
    /\ ApiInit

HandlerNext == \E h \in Handlers : HandlerStep(h)

HandlerSpec == HandlerInit /\ [][HandlerNext]_vars

\* ----------------------------------------------------------- CheckURL
\* func (c *Checker) CheckURL(ctx, url) { return c.checkURL(ctx, url) }: one
\* goroutine (slot 1) runs checkURL for any target against a server that may
\* answer with any status code; the value left in wres[1] at "send" is the
\* CheckResult that CheckURL returns.
ProbeInit ==
    /\ maxWorkers \in WorkerConfigs
    /\ urls = <<>>
    /\ ctxDone \in BOOLEAN
    /\ mainpc = "checkurl"
    /\ workerCount = 0
    /\ spawnI = 0
    /\ jobs = <<>>
    /\ jobsClosed = FALSE
    /\ results = <<>>
    /\ resultsClosed = FALSE
    /\ wg = 0
    /\ prodpc = "none"
    /\ prodIdx = 1
    /\ closerpc = "none"
    /\ \E u \in Targets :
          /\ wpc = [w \in Workers |-> IF w = 1 THEN "checkurl" ELSE "none"]
          /\ wurl = [w \in Workers |-> IF w = 1 THEN u ELSE ""]
          /\ probed = [t \in Targets |-> IF t = u THEN 1 ELSE 0]
    /\ wres = [w \in Workers |-> NoResult]
    /\ wgot = [w \in Workers |-> NoOutcome]
    /\ checkResults = <<>>
    /\ ret = <<>>
    /\ served = AllStatusCodes
    /\ sent = [w \in Workers |-> 0]
    /\ calls = 1
    /\ ApiInit

ProbeNext ==
    \/ CheckURLStart(1)
    \/ DoStart(1)
    \/ DoComplete(1)
    \/ Cancel

ProbeSpec == ProbeInit /\ [][ProbeNext]_vars

\* every goroutine that can take a step eventually takes one, and every
\* request in flight eventually returns; nothing forces the context to be cancelled
FairSpec ==
    /\ Spec
    /\ WF_vars(MainStep)
    /\ WF_vars(ProducerStep)
    /\ WF_vars(CloserStep)
    /\ \A w \in Workers : WF_vars(WorkerStep(w))

TypeOK ==
    /\ maxWorkers \in WorkerConfigs
    /\ ctxDone \in BOOLEAN
    /\ Len(jobs) <= Len(urls)
    /\ Len(results) <= Len(urls)
    /\ wg \in 0..MaxW

\* ============================================================== claims
Count(seq, x) == Cardinality({i \in DOMAIN seq : seq[i] = x})

UrlsOf(rs) == [i \in DOMAIN rs |-> rs[i].URL]

\* workers that are inside checkURL
Probing == {w \in Workers : wpc[w] \in {"checkurl", "do", "inflight"}}

ProbesInFlight == Cardinality(Probing)

SpawnedWorkers == {w \in Workers : wpc[w] # "none"}

\* C1: with a non-empty urls, maxWorkers >= 1 and a context that is never
\* cancelled, CheckURLs returns exactly len(urls) results and the multiset of
\* their URLs is the multiset of the input urls.
C1_AllTargetsReported ==
    (mainpc = "returned" /\ ~ctxDone /\ maxWorkers >= 1 /\ Len(urls) > 0)
        => /\ Len(ret) = Len(urls)
           /\ \A u \in Targets : Count(UrlsOf(ret), u) = Count(urls, u)

C1_Witness ==
    /\ mainpc = "returned"
    /\ ~ctxDone
    /\ maxWorkers = 2
    /\ urls = <<"http://a", "http://a">>
    /\ Len(ret) = 2

\* C2 (as claimed): when the context is cancelled while CheckURLs runs, the
\* returned collection still has one outcome per input target.
C2_OnePerTargetWhenCancelled ==
    (mainpc = "returned" /\ ctxDone /\ maxWorkers >= 1)
        => Len(ret) = Len(urls)

\* C3: every call of CheckURLs eventually returns, for every batch size and
\* every maxWorkers, whether or not cancellation fires.
C3_EveryCallReturns == (mainpc # "idle") ~> (mainpc = "returned")

C3_Witness ==
    /\ mainpc = "returned"
    /\ ctxDone
    /\ Len(urls) > 0
    /\ Len(urls) < maxWorkers
    /\ Len(ret) < Len(urls)

C5_EmptyReturnsAtOnce ==
    (mainpc # "idle" /\ Len(urls) = 0)
        => /\ mainpc = "returned"
           /\ Len(ret) = 0
           /\ SpawnedWorkers = {}
           /\ prodpc = "none"
           /\ closerpc = "none"

\* C6 (as claimed): with maxWorkers < 1 and a non-empty urls the batch is
\* rejected: CheckURLs never returns a normal, empty result collection.
C6_InvalidConfigRejected ==
    ~(mainpc = "returned" /\ maxWorkers < 1 /\ Len(urls) > 0 /\ Len(ret) = 0)

C8_NoProbeOnceCancelSeen ==
    [][\A w \in Workers :
          /\ (wpc[w] = "select" /\ wpc'[w] = "checkurl") => ~ctxDone
          /\ (wpc[w] = "select" /\ ctxDone /\ wpc'[w] # "select") => wpc'[w] = "done"
          /\ wpc'[w] = "checkurl" => wpc[w] \in {"select", "checkurl"}
          /\ wpc[w] = "done" => wpc'[w] = "done"]_vars

C8_Witness ==
    \E w \in Workers :
        /\ wpc[w] = "done"
        /\ ctxDone
        /\ Len(jobs) > 0

\* C9: the outcome of a probe has Available = TRUE iff a response was
\* received and its status code s satisfies 200 <= s < 400.
C9_AvailableIff2xx3xx ==
    \A w \in Workers :
        wpc[w] = "send"
            => (wres[w].Available
                   <=> (wgot[w].kind = "response"
                           /\ 200 <= wgot[w].code /\ wgot[w].code < 400))

C9_Witness ==
    \E w \in Workers :
        /\ wpc[w] = "send"
        /\ wgot[w] = Response(399)
        /\ wres[w].Available

\* C10: a probe that obtained no response has Available = FALSE, StatusCode 0
\* and a non-empty Error; when the request itself failed (timeout, transport
\* failure, cancellation) the Error contains "request failed".
C10_FailureOutcome ==
    \A w \in Workers :
        (wpc[w] = "send" /\ wgot[w].kind # "response")
            => /\ ~wres[w].Available
               /\ wres[w].StatusCode = 0
               /\ wres[w].Error # NoError
               /\ wgot[w].kind = "error" => Contains(wres[w].Error, "request failed")

C10_Witness ==
    \E w \in Workers :
        /\ wpc[w] = "send"
        /\ wgot[w] = Failure("timeout")
        /\ wres[w].Error # NoError

\* C11: whenever a probe receives a response, whatever its status code, the
\* outcome's Error is empty and StatusCode is the response code; 200 gives
\* Available = TRUE and 404 gives Available = FALSE.
C11_ResponseOutcome ==
    \A w \in Workers :
        (wpc[w] = "send" /\ wgot[w].kind = "response")
            => /\ wres[w].Error = NoError
               /\ wres[w].StatusCode = wgot[w].code
               /\ wres[w].URL = wurl[w]
               /\ wgot[w].code = 200 => wres[w].Available
               /\ wgot[w].code = 404 => ~wres[w].Available

C11_Witness ==
    /\ wpc[1] = "send"
    /\ wgot[1] = Response(404)
    /\ wres[1].StatusCode = 404
    /\ wres[1].Error = NoError
    /\ ~wres[1].Available

\* C12: a failing target never aborts the batch: when CheckURLs returns
\* without cancellation and some target's outcome is a failure, every target
\* still has its own outcome, and the outcome of a well-formed target is
\* never the malformed target's error.
C12_FailureDoesNotAbort ==
    (mainpc = "returned" /\ ~ctxDone
        /\ \E i \in DOMAIN ret : ret[i].Error # NoError)
        => /\ Len(ret) = Len(urls)
           /\ \A u \in Targets : Count(UrlsOf(ret), u) = Count(urls, u)
           /\ \A i \in DOMAIN ret :
                 Contains(ret[i].Error, "failed to create request")
                     <=> ~ParseOK(ret[i].URL)

C12_Witness ==
    /\ mainpc = "returned"
    /\ ~ctxDone
    /\ maxWorkers = 1
    /\ urls = <<"://invalid-url", "http://a">>
    /\ Len(ret) = 2
    /\ ret[1].Error # NoError
    /\ ret[2].Available

\* C13 (as claimed): once the spawn loop is over, the number of worker
\* goroutines CheckURLs has spawned is min(maxWorkers, len(urls)), and it is
\* at least 1 whenever urls is non-empty.
C13_WorkersSpawned ==
    mainpc \in {"gocloser", "collect", "returned"}
        => /\ Cardinality(SpawnedWorkers) = Min(maxWorkers, Len(urls))
           /\ Len(urls) > 0 => Cardinality(SpawnedWorkers) >= 1

\* C14 (as claimed): when cancellation does not fire, each occurrence of a
\* target in urls is probed exactly once: at the return, checkURL has been
\* called for each target as often as the target occurs in urls.
C14_EachProbedOnce ==
    (mainpc = "returned" /\ ~ctxDone)
        => \A u \in Targets : probed[u] = Count(urls, u)

\* the outcomes that have left a worker, in the order the collector meets them
Emitted == checkResults \o results

CancelFlavoured(r) == Contains(r.Error, "context canceled")

\* C15: a probe that has begun (so every probe in flight when cancellation
\* fires) ends in an outcome that its worker sends and that is in the
\* collection CheckURLs returns; an outcome that failed because of the
\* cancellation has Available = FALSE and an Error containing "request failed".
C15_InFlightOutcomeReported ==
    /\ [](mainpc = "returned"
             => \A u \in Targets : Count(UrlsOf(ret), u) = probed[u])
    /\ [](\A i \in DOMAIN Emitted :
             CancelFlavoured(Emitted[i])
                 => /\ ~Emitted[i].Available
                    /\ Emitted[i].StatusCode = 0
                    /\ Contains(Emitted[i].Error, "request failed"))
    /\ [][\A w \in Workers :
             /\ wpc[w] \in {"checkurl", "do", "inflight"}
                   => wpc'[w] \in {"checkurl", "do", "inflight", "send"}
             /\ (wpc[w] = "send" /\ wpc'[w] # "send")
                   => results' = Append(results, wres[w])]_vars

C15_Witness ==
    /\ mainpc = "returned"
    /\ ctxDone
    /\ maxWorkers = 2
    /\ Len(urls) = 2
    /\ Len(ret) = 2
    /\ \A i \in DOMAIN ret :
          ret[i].Error = <<"request failed", "context canceled">>

\* C16: workers run in parallel: a worker that holds a target is never kept
\* from starting and running its probe by the probes of the other workers,
\* so min(maxWorkers, len(urls)) probes are in flight at once (the witness).
C16_ProbesRunInParallel ==
    \A w \in Workers :
        /\ (wpc[w] = "recv" /\ Len(jobs) > 0) => ENABLED WorkerRecv(w)
        /\ (wpc[w] = "select" /\ ~ctxDone) => ENABLED WorkerDefault(w)
        /\ wpc[w] = "checkurl" => ENABLED CheckURLStart(w)
        /\ wpc[w] = "do" => ENABLED DoStart(w)

C16_Witness ==
    /\ maxWorkers = 2
    /\ Len(urls) = 2
    /\ \A w \in 1..2 : wpc[w] = "inflight"

AllWorkersTerminated == \A w \in Workers : wpc[w] \in {"none", "done"}

\* C17: every outcome a worker sends appears exactly once in the collection
\* CheckURLs returns, and CheckURLs returns only after every worker has
\* terminated: results is closed only after the WaitGroup reached zero, and
\* the collector has drained results when it returns.
C17_EveryOutcomeCollectedOnce ==
    /\ [](closerpc \in {"close", "done"} => (wg = 0 /\ AllWorkersTerminated))
    /\ [](resultsClosed => closerpc = "done")
    /\ [](mainpc = "returned"
             => /\ AllWorkersTerminated
                /\ results = <<>>
                /\ ret = Emitted
                /\ workerCount # 0 => resultsClosed)
    /\ [][\/ Emitted' = Emitted
          \/ \E w \in Workers :
                /\ wpc[w] = "send"
                /\ wpc'[w] = "recv"
                /\ Emitted' = Append(Emitted, wres[w])]_vars

C17_Witness ==
    /\ mainpc = "returned"
    /\ ctxDone
    /\ resultsClosed
    /\ Len(urls) = 2
    /\ Len(ret) = 1
    /\ wg = 0

\* every target of the batch has been handed to a worker
SupplyExhausted == prodIdx > Len(urls) /\ jobs = <<>>

\* 0 Idle, 1 Dispatching (supply not exhausted, cancellation not fired),
\* 2 Draining (supply exhausted or cancellation fired), 3 Complete
Phase ==
    IF mainpc = "idle" THEN 0
    ELSE IF mainpc = "returned" THEN 3
    ELSE IF ~ctxDone /\ ~SupplyExhausted THEN 1
    ELSE 2

\* C18: a batch goes through Idle, Dispatching, Draining, Complete in that
\* order and never backwards (a batch that has workers skips none of them);
\* Complete is terminal, and in Complete no probe is in flight and every
\* outcome produced has been collected.
C18_PhasesInOrder ==
    /\ [][/\ Phase' >= Phase
          /\ workerCount' >= 1 => Phase' <= Phase + 1
          /\ Phase = 3 => Phase' = 3]_vars
    /\ [](Phase = 3
             => /\ ProbesInFlight = 0
                /\ AllWorkersTerminated
                /\ results = <<>>
                /\ \A u \in Targets : Count(UrlsOf(ret), u) = probed[u])

C18_Witness ==
    /\ Phase = 3
    /\ maxWorkers = 1
    /\ Len(urls) = 2
    /\ ~ctxDone
    /\ Len(ret) = 2
    /\ resultsClosed

\* C19 (as claimed): for every target the events happen in the order taken
\* from the job queue, probed, outcome sent: a probe starts only for a target
\* just taken, an outcome is sent only after its probe, and a worker that has
\* taken a target goes on to probe it and to send its outcome.
C19_TakenProbedEmitted ==
    [][\A w \in Workers :
          /\ (wpc'[w] = "checkurl" /\ wpc[w] # "checkurl") => wpc[w] = "select"
          /\ (wpc'[w] = "send" /\ wpc[w] # "send")
                => wpc[w] \in {"checkurl", "do", "inflight"}
          /\ (wpc[w] = "select" /\ wpc'[w] # "select") => wpc'[w] = "checkurl"
          /\ (wpc[w] \in {"checkurl", "do", "inflight"})
                => wpc'[w] \in {"checkurl", "do", "inflight", "send"}
          /\ (wpc[w] = "send" /\ wpc'[w] # "send")
                => results' = Append(results, wres[w])]_vars

\* C20: a worker terminates only when the job queue is closed and drained or
\* when its check sees the cancellation, never while the queue is open or
\* non-empty with cancellation not fired; each worker calls wg.Done() exactly
\* once however many workers observe the same condition, and a terminated
\* worker stays terminated.
C20_WorkerTerminatesForTwoReasons ==
    /\ [][\A w \in Workers :
             /\ (wpc[w] # "done" /\ wpc'[w] = "done")
                   => /\ \/ wpc[w] = "recv" /\ jobsClosed /\ jobs = <<>>
                         \/ wpc[w] = "select" /\ ctxDone
                      /\ wg' = wg - 1
             /\ wpc[w] = "done" => wpc'[w] = "done"]_vars
    /\ [](wg = Cardinality({w \in Workers : wpc[w] \notin {"none", "done"}}))

C20_Witness ==
    /\ Len(urls) = 2
    /\ prodIdx = 3
    /\ jobs = <<>>
    /\ ctxDone
    /\ \A w \in 1..2 : wpc[w] = "done"
    /\ \A u \in Targets : probed[u] = 0
    /\ wg = 0

\* the URLs of rs are a sub-multiset of us
SubMultiset(rs, us) == \A u \in Targets : Count(UrlsOf(rs), u) <= Count(us, u)

\* C21: in every state, cancellation or not, the URLs of the outcomes sent so
\* far, and of the returned collection, are a sub-multiset of urls: no
\* occurrence of a target yields more than one outcome and the result count
\* never exceeds len(urls).  (Last conjunct: what CheckURLs returns is a
\* return the model of handleCheckURLs is run against.)
C21_OutcomesSubMultiset ==
    /\ SubMultiset(Emitted, urls)
    /\ Len(Emitted) <= Len(urls)
    /\ SubMultiset(ret, urls)
    /\ Len(ret) <= Len(urls)
    /\ \A u \in Targets : probed[u] <= Count(urls, u)
    /\ mainpc = "returned" => IsCheckURLsReturn(ret, maxWorkers, urls)

C21_Witness ==
    /\ mainpc = "returned"
    /\ ctxDone
    /\ maxWorkers = 2
    /\ urls = <<"http://a", "http://a">>
    /\ Len(ret) = 1
    /\ probed["http://a"] = 1

\* C22: a probe never follows a redirect: client.Do issues at most one
\* request per probe, and a probe that received a 3xx response (a redirect
\* code included) ends with that response: one request issued, StatusCode the
\* 3xx code, Available = TRUE and no Error.
C22_RedirectNotFollowed ==
    \A w \in Workers :
        /\ sent[w] <= 1
        /\ (wpc[w] = "send" /\ wgot[w].kind = "response"
               /\ wgot[w].code >= 300 /\ wgot[w].code < 400)
              => /\ sent[w] = 1
                 /\ wres[w].StatusCode = wgot[w].code
                 /\ wres[w].Available
                 /\ wres[w].Error = NoError

C22_Witness ==
    /\ wpc[1] = "send"
    /\ wgot[1] = Response(301)
    /\ sent[1] = 1
    /\ wres[1].StatusCode = 301
    /\ wres[1].Available
    /\ wres[1].Error = NoError

\* C23 (as claimed): on every failure path of a probe, the malformed target
\* for which no request can be built included, the outcome's ResponseTimeMs
\* is set from the elapsed time measured up to the failure.
C23_ResponseTimeOnEveryFailure ==
    \A w \in Workers :
        (wpc[w] = "send" /\ wgot[w].kind # "response")
            => wres[w].ResponseTimeMs = "elapsed"

Begun == DOMAIN hpc

\* the handler has finished with this invocation
Answered(h) == h \in Begun /\ hpc[h] = "done"

\* C25: handleCheckURLs answers 400 exactly to a body that cannot be
\* decoded, an empty urls list and a urls list of more than 1000 entries; in
\* these cases it creates no Checker and nothing is probed or counted; a list
\* of 1 to 1000 urls is accepted (a Checker is created, the answer is 200).
C25_RejectsInvalidRequests ==
    \A h \in Begun :
        LET req == hreq[h]
            invalid == \/ ~req.decodes
                       \/ Len(req.urls) = 0
                       \/ Len(req.urls) > 1000
        IN /\ invalid
                 => /\ ~hchecker[h].created
                    /\ hpc[h] \in {"entered", "done"}
                    /\ hresults[h] = <<>>
                    /\ \A l \in MetricLabels : hcounted[h][l] = 0
           /\ (Answered(h) /\ invalid) => hresp[h].status = 400
           /\ (Answered(h) /\ ~invalid)
                 => /\ hresp[h].status = 200
                    /\ hchecker[h].created
           /\ hpc[h] \in {"checking", "record", "respond"} => ~invalid

C25_Witness ==
    \E g, h \in Handlers :
        /\ Answered(g) /\ Len(hreq[g].urls) = 1000 /\ hresp[g].status = 200
        /\ Answered(h) /\ Len(hreq[h].urls) = 1001 /\ hresp[h].status = 400

\* C26: in every response for an accepted request, total_checked is the
\* number of entries in results, total_available the number of results with
\* Available = TRUE, and total_available <= total_checked.
C26_TotalsMatchResults ==
    \A h \in Begun :
        (Answered(h) /\ hresp[h].status = 200)
            => /\ hresp[h].total_checked = Len(hresults[h])
               /\ hresp[h].total_available
                     = Cardinality({i \in DOMAIN hresults[h] : hresults[h][i].Available})
               /\ hresp[h].total_available <= hresp[h].total_checked

C26_Witness ==
    \E h \in Begun :
        /\ Answered(h)
        /\ hresp[h].status = 200
        /\ hresp[h].total_checked = 2
        /\ hresp[h].total_available = 0
        /\ \E i \in DOMAIN hresults[h] : hresults[h][i].StatusCode = 404

RECURSIVE SumOver(_, _)
SumOver(f, S) ==
    IF S = {} THEN 0
    ELSE LET x == CHOOSE y \in S : TRUE IN f[x] + SumOver(f, S \ {x})

\* C27: once the handler has recorded its results, it has incremented
\* url_checks_total once per result: "failure" for each result with an
\* Error, "success" for each without (a 404 without error included), the
\* two adding up to len(results); before that, and for a rejected request,
\* it has incremented nothing; the counter holds the increments of all
\* invocations.
C27_OneIncrementPerResult ==
    /\ \A h \in Begun :
          LET rs == hresults[h]
              failed == {i \in DOMAIN rs : rs[i].Error # NoError}
          IN IF hpc[h] \in {"respond", "done"} /\ hresp[h].status # 400
                THEN /\ hcounted[h]["failure"] = Cardinality(failed)
                     /\ hcounted[h]["success"] = Len(rs) - Cardinality(failed)
                     /\ hcounted[h]["success"] + hcounted[h]["failure"] = Len(rs)
                ELSE \A l \in MetricLabels : hcounted[h][l] = 0
    /\ \A l \in MetricLabels :
          URLChecksTotal[l] = SumOver([h \in Begun |-> hcounted[h][l]], Begun)

C27_Witness ==
    \E h \in Begun :
        /\ Answered(h)
        /\ Len(hresults[h]) = 2
        /\ \E i \in DOMAIN hresults[h] :
              /\ hresults[h][i].StatusCode = 404
              /\ hresults[h][i].Error = NoError
        /\ hcounted[h]["success"] = 1
        /\ hcounted[h]["failure"] = 1
        /\ URLChecksTotal["success"] = 2

\* the invocations of handleCheckURLs that are executing
Executing == {h \in Begun : hpc[h] # "done"}

\* C28: under every interleaving of concurrent invocations the
\* RequestsInFlight gauge is the number of invocations executing: one Inc
\* on entry, one Dec on every exit path (the 400 answers included), never
\* negative, and back at its initial value when all have finished.
C28_GaugeCountsExecuting ==
    /\ RequestsInFlight = Cardinality(Executing)
    /\ RequestsInFlight >= 0
    /\ (\A h \in Handlers : Answered(h)) => RequestsInFlight = 0

C28_Witness ==
    /\ RequestsInFlight = 2
    /\ \E g, h \in Begun :
          /\ hpc[g] = "entered" /\ ~hreq[g].decodes
          /\ hpc[h] = "checking"

\* C29: no goroutine sends on or closes a closed channel: jobs is closed
\* once, by the producer as it ends, after its last send (the range over urls
\* is exhausted or the cancellation made it stop) and nothing is sent on it
\* afterwards; results is closed once, by the closer, after every worker has
\* called Done, so no worker is left to send on it.
C29_NoSendOrCloseOnClosed ==
    /\ [][/\ Len(jobs') > Len(jobs) => (~jobsClosed /\ ~jobsClosed')
          /\ (~jobsClosed /\ jobsClosed')
                => /\ prodpc = "loop" /\ prodpc' = "done"
                   /\ prodIdx > Len(urls) \/ ctxDone
          /\ (prodpc = "loop" /\ prodpc' = "done") => (~jobsClosed /\ jobsClosed')
          /\ jobsClosed => (jobsClosed' /\ prodpc' = "done")
          /\ Len(results') > Len(results) => (~resultsClosed /\ ~resultsClosed')
          /\ (~resultsClosed /\ resultsClosed')
                => /\ closerpc = "close" /\ closerpc' = "done"
                   /\ wg = 0
                   /\ AllWorkersTerminated
          /\ (closerpc = "close" /\ closerpc' = "done")
                => (~resultsClosed /\ resultsClosed')
          /\ resultsClosed => (resultsClosed' /\ closerpc' = "done")]_vars
    /\ [](resultsClosed => (wg = 0 /\ AllWorkersTerminated))
    /\ [](jobsClosed => prodpc = "done")

C29_Witness ==
    /\ jobsClosed
    /\ resultsClosed
    /\ ~ctxDone
    /\ mainpc = "collect"
    /\ Len(urls) = 2
    /\ Len(results) = 2
    /\ prodIdx = 3

\* C30: in every state at most len(urls) items are buffered in jobs and at
\* most len(urls) in results, so the producer's send of its next url and a
\* worker's send of its result can always be taken at once, also while the
\* collector has not begun to read.
C30_SendsNeverBlock ==
    /\ Len(jobs) <= Len(urls)
    /\ Len(results) <= Len(urls)
    /\ (prodpc = "loop" /\ prodIdx <= Len(urls)) => ENABLED ProducerSend
    /\ \A w \in Workers : wpc[w] = "send" => ENABLED WorkerSend(w)

C30_Witness ==
    /\ mainpc = "gocloser"
    /\ Len(urls) = 2
    /\ Len(results) = 2
    /\ checkResults = <<>>

====
